---- MODULE Spec2Model ----
(***************************************************************************)
(* Column planning for the search results table                            *)
(* (public/app/features/search/page/components/columns.tsx).               *)
(*                                                                         *)
(* generateColumns turns a query response and an available width into an   *)
(* ordered list of table columns; every column carries a cell formatter.   *)
(* The model holds the arguments of one generateColumns call, the list it  *)
(* returned, the cell rendered last and the interaction event handled last.*)
(*                                                                         *)
(* Widths are held in fifths of a pixel (Px), so that the name column's    *)
(* `availableWidth * 0.2` is computed exactly.  Strings that the code      *)
(* takes apart (a location path, an icon reference) are sequences; strings *)
(* it only compares or passes on are TLA+ strings.                         *)
(***************************************************************************)
EXTENDS Integers, Sequences, FiniteSets, TLC

VARIABLES
    response,            \* the QueryResponse: which fields exist, and the meta
    availableWidth,      \* the availableWidth argument, in fifths of a pixel
    selection,           \* TRUE iff a SelectionChecker was supplied
    selectionToggle,     \* TRUE iff a SelectionToggle was supplied
    onDatasourceChange,  \* TRUE iff the onDatasourceChange callback was supplied
    pc,                  \* "idle" before generateColumns returned, then "planned"
    columns,             \* the TableColumn[] generateColumns returned
    cell,                \* the cell a formatter of `columns` rendered last
    event,               \* the interaction event dispatched last
    calls                \* the calls the handler of `event` made, in order

vars == <<response, availableWidth, selection, selectionToggle,
          onDatasourceChange, pc, columns, cell, event, calls>>

----------------------------------------------------------------------------
(* Bounds of the model *)

\* available widths tried: 0, WidthStep, ..., MaxWidthIdx * WidthStep pixels
WidthStep == 185
MaxWidthIdx == 16
\* longest location string, in characters
MaxLocLen == 3
\* longest datasource list of a row
MaxDsList == 2
\* longest tag list of a row
MaxTags == 2

----------------------------------------------------------------------------
(* Values *)

\* JavaScript's undefined, for a value the code only tests or passes on
Undefined == "<undefined>"

None == [some |-> FALSE]
Some(x) == [some |-> TRUE, val |-> x]

\* 1 / 0.2: the number of model units in a pixel
Scale == 5
Px(n) == n * Scale

Max(a, b) == IF a >= b THEN a ELSE b

Truthy(s) == s # Undefined /\ s # ""

TYPE_COLUMN_WIDTH == 250
DATASOURCE_COLUMN_WIDTH == 200
LOCATION_COLUMN_WIDTH == 200
TAGS_COLUMN_WIDTH == 300

----------------------------------------------------------------------------
(* generateColumns *)

\* the checkbox column and what it takes from the budget
CheckboxWidth == Px(30)

\* `if (selection && selectionToggle)`; the faulty variant has `||`
IncludeCheckboxBroken(sel, tog) == sel \/ tog
IncludeCheckbox(sel, tog) == sel /\ tog

\* Math.max(availableWidth * 0.2, 300); the faulty variant has a floor of 200
NameWidthBroken(avail) == Max(avail \div Scale, Px(200))
NameWidth(avail) == Max(avail \div Scale, Px(300))

\* `if (access.ds_uid && onDatasourceChange)`; the faulty variant forgets the
\* callback
IncludeDatasourceBroken(resp, onDs) == resp.ds_uid
IncludeDatasource(resp, onDs) == resp.ds_uid /\ onDs

\* Math.max(availableWidth - TAGS_COLUMN_WIDTH, LOCATION_COLUMN_WIDTH)
LocationWidth(avail) == Max(avail - Px(TAGS_COLUMN_WIDTH), Px(LOCATION_COLUMN_WIDTH))

\* `if (meta?.locationInfo)`
IncludeLocation(resp) == resp.hasLocationInfo

Column(id, field, header, width) ==
    [id |-> id, field |-> field, Header |-> header, width |-> width]

\* field: kindField ?? typeField
makeTypeColumn(resp, width) ==
    Column("column-type",
           IF resp.kind THEN "kind" ELSE IF resp.panel_type THEN "panel_type" ELSE Undefined,
           "Type", width)

makeDataSourceColumn(width) ==
    Column("column-datasource", "ds_uid", "Data source", width)

makeTagsColumn(resp, width) ==
    Column("column-tags", IF resp.tags THEN "tags" ELSE Undefined, "Tags", width)

\* the width the tags column is given: all that is left; the faulty variant
\* gives it TAGS_COLUMN_WIDTH
TagsWidthBroken(avail) == TAGS_COLUMN_WIDTH * Scale
TagsWidth(avail) == avail

\* The body of generateColumns: a_k is availableWidth after step k.
generateColumns(resp, avail, sel, tog, onDs) ==
    LET c1 == IF IncludeCheckbox(sel, tog)
                THEN <<Column("column-checkbox", "uid", "select-all", CheckboxWidth)>>
                ELSE <<>>
        a1 == IF IncludeCheckbox(sel, tog) THEN avail - CheckboxWidth ELSE avail
        \* name column
        w2 == NameWidth(a1)
        c2 == Append(c1, Column("column-name", "name", "Name", w2))
        a2 == a1 - w2
        \* type column
        w3 == Px(TYPE_COLUMN_WIDTH)
        c3 == Append(c2, makeTypeColumn(resp, w3))
        a3 == a2 - w3
        \* datasource column
        w4 == Px(DATASOURCE_COLUMN_WIDTH)
        c4 == IF IncludeDatasource(resp, onDs) THEN Append(c3, makeDataSourceColumn(w4)) ELSE c3
        a4 == IF IncludeDatasource(resp, onDs) THEN a3 - w4 ELSE a3
        \* location column
        w5 == LocationWidth(a4)
        c5 == IF IncludeLocation(resp)
                THEN Append(c4, Column("column-location",
                                       IF resp.location THEN "location" ELSE "url",
                                       "Location", w5))
                ELSE c4
        a5 == IF IncludeLocation(resp) THEN a4 - w5 ELSE a4
    IN  Append(c5, makeTagsColumn(resp, TagsWidth(a5)))

----------------------------------------------------------------------------
(* The inputs *)

Widths == {Px(i * WidthStep) : i \in 0 .. MaxWidthIdx}

Chars == {"a", "b", "/"}

\* meta.custom.locationInfo: segment key -> {kind, name, url}
LocationInfos ==
    { << >>,
      (<<"a">> :> [kind |-> "folder", name |-> "A", url |-> "/a"]),
      (<<"a">> :> [kind |-> "folder", name |-> "A", url |-> "/a"])
        @@ (<<"b">> :> [kind |-> "dashboard", name |-> "B", url |-> "/d/b"])
        @@ (<<"a", "b">> :> [kind |-> "panel", name |-> "AB", url |-> "/p/ab"]) }

Responses ==
    { r \in [kind : BOOLEAN, panel_type : BOOLEAN, ds_uid : BOOLEAN, location : BOOLEAN,
             tags : BOOLEAN, hasLocationInfo : BOOLEAN, locationInfo : LocationInfos] :
        ~r.hasLocationInfo => r.locationInfo = << >> }

NoCell == [col |-> "none", throws |-> FALSE]
NoEvent == [target |-> "none", stopped |-> FALSE, prevented |-> FALSE]

Init ==
    /\ response \in Responses
    /\ availableWidth \in Widths
    /\ selection \in BOOLEAN
    /\ selectionToggle \in BOOLEAN
    /\ onDatasourceChange \in BOOLEAN
    /\ pc = "idle"
    /\ columns = << >>
    /\ cell = NoCell
    /\ event = NoEvent
    /\ calls = << >>

GenerateColumns ==
    /\ pc = "idle"
    /\ columns' = generateColumns(response, availableWidth, selection, selectionToggle,
                                  onDatasourceChange)
    /\ pc' = "planned"
    /\ UNCHANGED <<response, availableWidth, selection, selectionToggle,
                   onDatasourceChange, cell, event, calls>>

----------------------------------------------------------------------------
(* The type column's accessor (makeTypeColumn) *)

AppsIcon == <<"public/img/icons/unicons/apps", ".svg">>
FolderIcon == <<"public/img/icons/unicons/folder", ".svg">>
GraphBarIcon == <<"public/img/icons/unicons/graph-bar", ".svg">>

\* String.prototype.endsWith; the faulty variant is String.prototype.includes
EndsWithBroken(s, suffix) ==
    \E i \in 1 .. Len(s) : SubSeq(s, i, i + Len(suffix) - 1) = suffix
EndsWith(s, suffix) ==
    /\ Len(s) >= Len(suffix)
    /\ SubSeq(s, Len(s) - Len(suffix) + 1, Len(s)) = suffix

\* config.panels: the panel plugins registered.  `small` is info.logos.small,
\* empty when the entry has none; `name` is Undefined when the entry has none.
panels ==
    ("timeseries" :> [name |-> "Time series",
                      small |-> <<"public/app/plugins/panel/timeseries/img/icn", ".svg">>])
    @@ ("graph" :> [name |-> "Graph (old)",
                    small |-> <<"public/app/plugins/panel/graph/img/icn", ".png">>])
    @@ ("stat" :> [name |-> "Stat",
                   small |-> <<"public/app/plugins/panel/stat/img/icn", ".svg", "?v=2">>])
    @@ ("news" :> [name |-> "News", small |-> << >>])
    @@ ("text" :> [name |-> Undefined,
                   small |-> <<"public/app/plugins/panel/text/img/icn", ".svg">>])

KindValues == {Undefined, "", "dashboard", "folder", "panel", "query"}
PanelTypeValues == {Undefined, "", "timeseries", "graph", "stat", "news", "text", "heatmap"}

Threw == [throws |-> TRUE]

\* case 'panel' of the accessor's switch
panelCase(resp, typeVal) ==
    IF ~resp.panel_type
      THEN Threw                       \* typeField.values of an undefined typeField
      ELSE IF ~Truthy(typeVal)
        THEN [throws |-> FALSE, icon |-> GraphBarIcon, txt |-> "panel"]
        ELSE IF typeVal \in DOMAIN panels /\ Truthy(panels[typeVal].name)
          THEN LET v == panels[typeVal].small
               IN  [throws |-> FALSE,
                    icon |-> IF v # << >> /\ EndsWith(v, <<".svg">>) THEN v ELSE GraphBarIcon,
                    txt |-> panels[typeVal].name]
          ELSE [throws |-> FALSE, icon |-> GraphBarIcon, txt |-> typeVal]

typeAccessor(resp, kindVal, typeVal) ==
    LET kind == IF resp.kind /\ kindVal # Undefined THEN kindVal ELSE "dashboard"
    IN  IF kind = ""
          THEN [throws |-> FALSE, icon |-> AppsIcon, txt |-> "Dashboard"]
          ELSE CASE kind = "dashboard" ->
                      [throws |-> FALSE, icon |-> AppsIcon, txt |-> "Dashboard"]
                 [] kind = "folder" ->
                      [throws |-> FALSE, icon |-> FolderIcon, txt |-> "Folder"]
                 [] kind = "panel" -> panelCase(resp, typeVal)
                 [] OTHER -> [throws |-> FALSE, icon |-> AppsIcon, txt |-> kind]

----------------------------------------------------------------------------
(* Event handlers: a handler is the sequence of its statements *)

StopPropagation == [op |-> "stopPropagation"]
PreventDefault == [op |-> "preventDefault"]
Alert == [op |-> "alert"]
Call(cb, arg) == [op |-> "call", cb |-> cb, arg |-> arg]

\* Runs the statements of `prog` in order on event state `e`; a call is logged
\* with the state the event is in when the call is made.
RECURSIVE RunHandler(_, _, _)
RunHandler(prog, e, log) ==
    IF prog = << >>
      THEN [event |-> e, calls |-> log]
      ELSE LET st == Head(prog)
           IN  CASE st.op = "stopPropagation" ->
                      RunHandler(Tail(prog), [e EXCEPT !.stopped = TRUE], log)
                 [] st.op = "preventDefault" ->
                      RunHandler(Tail(prog), [e EXCEPT !.prevented = TRUE], log)
                 [] st.op = "call" ->
                      RunHandler(Tail(prog), e,
                                 Append(log, [cb |-> st.cb, arg |-> st.arg,
                                              stopped |-> e.stopped,
                                              prevented |-> e.prevented]))
                 [] OTHER -> RunHandler(Tail(prog), e, log)

NewEvent(target) == [target |-> target, stopped |-> FALSE, prevented |-> FALSE]

\* the header checkbox's onChange
checkboxHeaderOnChange == <<StopPropagation, PreventDefault, Alert>>

\* the row checkbox's onChange
checkboxCellOnChange(kind, uid) == <<Call("selectionToggle", <<kind, uid>>)>>

\* a datasource chip's onClick
datasourceOnClick(uid) ==
    <<StopPropagation, PreventDefault, Call("onDatasourceChange", <<uid>>)>>

\* TagList is handed onTagSelected as its onClick; whether TagList itself
\* suppresses the click before calling it is not decided in this file.
tagListOnClick(tag, suppresses) ==
    IF suppresses
      THEN <<StopPropagation, PreventDefault, Call("onTagSelected", <<tag>>)>>
      ELSE <<Call("onTagSelected", <<tag>>)>>

----------------------------------------------------------------------------
(* The datasource column's Cell (makeDataSourceColumn) *)

\* getDataSourceSrv().getInstanceSettings: undefined outside the domain;
\* `small` is meta.info.logos.small, empty when the settings have none
instanceSettings ==
    ("ds1" :> [uid |-> "uid-1", name |-> "Prometheus", type |-> "prometheus",
               small |-> <<"public/app/plugins/datasource/prometheus/img/logo", ".svg">>])
    @@ ("ds3" :> [uid |-> "uid-3", name |-> "Loki", type |-> "loki", small |-> << >>])

DsIds == {"ds1", "ds2", "ds3"}

SeqsUpTo(S, n) == UNION {[1 .. k -> S] : k \in 0 .. n}

DsLists == {None} \cup {Some(l) : l \in SeqsUpTo(DsIds, MaxDsList)}

\* one element of dslist.map; the faulty variant does not test the icon
datasourceItemNoCheck(v) ==
    IF v \in DOMAIN instanceSettings
      THEN [tag |-> "chip", img |-> instanceSettings[v].small,
            title |-> instanceSettings[v].type, text |-> instanceSettings[v].name,
            onClick |-> datasourceOnClick(instanceSettings[v].uid)]
      ELSE [tag |-> "invalid", img |-> << >>, title |-> Undefined, text |-> v,
            onClick |-> << >>]
datasourceItem(v) ==
    IF v \in DOMAIN instanceSettings /\ instanceSettings[v].small # << >>
      THEN [tag |-> "chip", img |-> instanceSettings[v].small,
            title |-> instanceSettings[v].type, text |-> instanceSettings[v].name,
            onClick |-> datasourceOnClick(instanceSettings[v].uid)]
      ELSE [tag |-> "invalid", img |-> << >>, title |-> Undefined, text |-> v,
            onClick |-> << >>]

\* Cell: null (nothing rendered) or the container with its items
datasourceCell(dslist) ==
    IF ~dslist.some \/ Len(dslist.val) = 0
      THEN [throws |-> FALSE, null |-> TRUE, items |-> << >>]
      ELSE [throws |-> FALSE, null |-> FALSE,
            items |-> [i \in 1 .. Len(dslist.val) |-> datasourceItem(dslist.val[i])]]

----------------------------------------------------------------------------
(* The location column's Cell *)

getIconForKind(v) ==
    IF v = "dashboard" THEN "apps"
    ELSE IF v = "folder" THEN "folder"
    ELSE "question-circle"

\* String.prototype.split with a one-character separator
RECURSIVE splitFrom(_, _, _)
splitFrom(s, sep, acc) ==
    IF s = << >>
      THEN <<acc>>
      ELSE IF Head(s) = sep
        THEN <<acc>> \o splitFrom(Tail(s), sep, << >>)
        ELSE splitFrom(Tail(s), sep, Append(acc, Head(s)))

\* the faulty variant drops the empty segments
splitSkipEmpty(s, sep) == SelectSeq(splitFrom(s, sep, << >>), LAMBDA p : p # << >>)
split(s, sep) == splitFrom(s, sep, << >>)

Locations == {None} \cup {Some(l) : l \in SeqsUpTo(Chars, MaxLocLen)}

locationItem(resp, p) ==
    IF p \in DOMAIN resp.locationInfo
      THEN LET info == resp.locationInfo[p]
           IN  [tag |-> "a", key |-> p, href |-> info.url,
                icon |-> getIconForKind(info.kind), name |-> info.name]
      ELSE [tag |-> "span", key |-> p, href |-> Undefined, icon |-> Undefined,
            name |-> Undefined]

\* (access.location?.values.get(i) ?? '').split('/') and parts.map
locationCell(resp, loc) ==
    LET parts == split(IF resp.location /\ loc.some THEN loc.val ELSE << >>, "/")
    IN  [throws |-> FALSE,
         items |-> [i \in 1 .. Len(parts) |-> locationItem(resp, parts[i])]]

----------------------------------------------------------------------------
(* The tags column's Cell (makeTagsColumn) *)

TagNames == {"t1", "t2"}
TagLists == {None} \cup {Some(l) : l \in SeqsUpTo(TagNames, MaxTags)}

tagsCell(resp, tags) ==
    IF ~resp.tags
      THEN Threw                       \* field.values of an undefined field
      ELSE IF tags.some
        THEN [throws |-> FALSE, null |-> FALSE, tags |-> tags.val]
        ELSE [throws |-> FALSE, null |-> TRUE, tags |-> << >>]

----------------------------------------------------------------------------
(* The checkbox column's Cell *)

UidValues == {Undefined, "u1"}

checkboxCell(resp, kindVal, uid, selected) ==
    LET kind == IF resp.kind THEN kindVal ELSE "dashboard"
        hasUID == uid # Undefined
    IN  [throws |-> FALSE, disabled |-> ~hasUID, value |-> selected /\ hasUID,
         onChange |-> checkboxCellOnChange(kind, uid)]

----------------------------------------------------------------------------
(* The table renders cells of the returned columns and dispatches events *)

HasColumn(id) == \E i \in 1 .. Len(columns) : columns[i].id = id

Rendered(c) ==
    /\ cell' = c
    /\ event' = NoEvent
    /\ calls' = << >>
    /\ UNCHANGED <<response, availableWidth, selection, selectionToggle,
                   onDatasourceChange, pc, columns>>

Dispatched(target, prog) ==
    LET r == RunHandler(prog, NewEvent(target), << >>)
    IN  /\ event' = r.event
        /\ calls' = r.calls
        /\ UNCHANGED <<response, availableWidth, selection, selectionToggle,
                       onDatasourceChange, pc, columns, cell>>

RenderTypeCell ==
    /\ pc = "planned" /\ HasColumn("column-type")
    /\ \E kv \in (IF response.kind THEN KindValues ELSE {Undefined}),
          tv \in (IF response.panel_type THEN PanelTypeValues ELSE {Undefined}) :
          Rendered([col |-> "column-type", row |-> [kind |-> kv, panel_type |-> tv]]
                   @@ typeAccessor(response, kv, tv))

RenderDatasourceCell ==
    /\ pc = "planned" /\ HasColumn("column-datasource")
    /\ \E l \in DsLists :
          Rendered([col |-> "column-datasource", row |-> [ds_uid |-> l]]
                   @@ datasourceCell(l))

RenderLocationCell ==
    /\ pc = "planned" /\ HasColumn("column-location")
    /\ \E l \in (IF response.location THEN Locations ELSE {None}) :
          Rendered([col |-> "column-location", row |-> [location |-> l]]
                   @@ locationCell(response, l))

RenderTagsCell ==
    /\ pc = "planned" /\ HasColumn("column-tags")
    /\ \E t \in (IF response.tags THEN TagLists ELSE {None}) :
          Rendered([col |-> "column-tags", row |-> [tags |-> t]]
                   @@ tagsCell(response, t))

RenderCheckboxCell ==
    /\ pc = "planned" /\ HasColumn("column-checkbox")
    /\ \E kv \in (IF response.kind THEN {"dashboard", "panel"} ELSE {Undefined}),
          uid \in UidValues, selected \in BOOLEAN :
          Rendered([col |-> "column-checkbox", row |-> [kind |-> kv, uid |-> uid]]
                   @@ checkboxCell(response, kv, uid, selected))

\* the user changes the header checkbox
HeaderCheckboxChange ==
    /\ pc = "planned" /\ HasColumn("column-checkbox")
    /\ Dispatched("checkbox-header", checkboxHeaderOnChange)

\* the user changes the checkbox of the rendered row (a disabled one cannot be)
CheckboxChange ==
    /\ cell.col = "column-checkbox" /\ ~cell.throws /\ ~cell.disabled
    /\ Dispatched("checkbox", cell.onChange)

\* the user clicks chip i of the rendered datasource cell
DatasourceChipClick ==
    /\ cell.col = "column-datasource" /\ ~cell.throws
    /\ \E i \in 1 .. Len(cell.items) :
          /\ cell.items[i].tag = "chip"
          /\ Dispatched("datasource-chip", cell.items[i].onClick)

\* the user clicks tag i of the rendered tag list
TagClick ==
    /\ cell.col = "column-tags" /\ ~cell.throws
    /\ \E i \in 1 .. Len(cell.tags), suppresses \in BOOLEAN :
          Dispatched("tag", tagListOnClick(cell.tags[i], suppresses))

Next == GenerateColumns

Spec == Init /\ [][Next]_vars

\* The cells of one layout: the widest available width, every response
InitCells ==
    /\ Init
    /\ availableWidth = Px(MaxWidthIdx * WidthStep)

NextCells ==
    \/ GenerateColumns
    \/ RenderTypeCell
    \/ RenderDatasourceCell
    \/ RenderLocationCell
    \/ RenderTagsCell
    \/ RenderCheckboxCell
    \/ HeaderCheckboxChange
    \/ CheckboxChange
    \/ DatasourceChipClick
    \/ TagClick

SpecCells == InitCells /\ [][NextCells]_vars

----------------------------------------------------------------------------
(* Properties of generateColumns, checked under Spec *)

Ids == [i \in 1 .. Len(columns) |-> columns[i].id]

ColumnOrder == <<"column-checkbox", "column-name", "column-type", "column-datasource",
                 "column-location", "column-tags">>

Pos(id) == CHOOSE k \in 1 .. Len(ColumnOrder) : ColumnOrder[k] = id

RECURSIVE SumWidths(_)
SumWidths(cols) == IF cols = << >> THEN 0 ELSE Head(cols).width + SumWidths(Tail(cols))

\* C1: without both selection and selectionToggle the result has no
\* 'column-checkbox'; with both it has one, 30 pixels wide, as its first element.
C1_CheckboxColumn ==
    pc = "planned" =>
        IF selection /\ selectionToggle
          THEN /\ columns[1].id = "column-checkbox"
               /\ columns[1].width = 30 * Scale
          ELSE \A i \in 1 .. Len(columns) : columns[i].id # "column-checkbox"

C1_Witness ==
    /\ pc = "planned" /\ selection /\ selectionToggle
    /\ columns[1].id = "column-checkbox"

C3_WidthsNonNegative ==
    pc = "planned" => \A i \in 1 .. Len(columns) : columns[i].width >= 0

\* C4: the returned ids are an order-preserving subsequence of ColumnOrder with
\* no id repeated; name, type and tags are always there and tags is last; the
\* datasource column is there exactly when the response has ds_uid and
\* onDatasourceChange was supplied; the location column exactly when the meta
\* has locationInfo.
C4_ColumnOrder ==
    pc = "planned" =>
        /\ \A i \in 1 .. Len(Ids) : \E k \in 1 .. Len(ColumnOrder) : ColumnOrder[k] = Ids[i]
        /\ \A i, j \in 1 .. Len(Ids) : i < j => Pos(Ids[i]) < Pos(Ids[j])
        /\ \E i \in 1 .. Len(Ids) : Ids[i] = "column-name"
        /\ \E i \in 1 .. Len(Ids) : Ids[i] = "column-type"
        /\ Len(Ids) > 0 /\ Ids[Len(Ids)] = "column-tags"
        /\ (\E i \in 1 .. Len(Ids) : Ids[i] = "column-datasource")
              <=> (response.ds_uid /\ onDatasourceChange)
        /\ (\E i \in 1 .. Len(Ids) : Ids[i] = "column-location")
              <=> response.hasLocationInfo

C4_Witness ==
    /\ pc = "planned"
    /\ Ids = ColumnOrder

\* what the claim gives the column `id` when the remainder is R: the relation
\* between R and the width w, in fifths of a pixel
Allotted(id, R, w) ==
    CASE id = "column-checkbox" -> w = 30 * Scale
      [] id = "column-name" ->
            /\ w >= 300 * Scale /\ 5 * w >= R
            /\ (w = 300 * Scale \/ 5 * w = R)
      [] id = "column-type" -> w = 250 * Scale
      [] id = "column-datasource" -> w = 200 * Scale
      [] id = "column-location" ->
            /\ w >= 200 * Scale /\ w >= R - 300 * Scale
            /\ (w = 200 * Scale \/ w = R - 300 * Scale)
      [] id = "column-tags" -> w = R
      [] OTHER -> FALSE

RECURSIVE Allocates(_, _)
Allocates(cols, R) ==
    \/ cols = << >>
    \/ /\ Allotted(Head(cols).id, R, Head(cols).width)
       /\ Allocates(Tail(cols), R - Head(cols).width)

\* C10: walking the returned list with a remainder R that starts at the
\* available width, every column has the width the allocator's rule gives it
\* for the R it meets, and R drops by that width before the next column.
C10_SequentialAllocator ==
    pc = "planned" => Allocates(columns, availableWidth)

C10_Witness ==
    /\ pc = "planned"
    /\ Ids = ColumnOrder
    /\ columns[2].width > 300 * Scale
    /\ columns[5].width > 200 * Scale

----------------------------------------------------------------------------
(* Properties of the cells and their handlers, checked under SpecCells *)

\* the callbacks whose calls are written in this file's own handlers
OwnHandlerCallbacks == {"selectionToggle", "onDatasourceChange"}

\* C5: every callback a handler calls is called with the event's propagation
\* stopped and its default prevented.  Stated for the handlers written in
\* this file: the row checkbox's onChange and the datasource chip's onClick.
C5_SuppressedBeforeCallback ==
    \A i \in 1 .. Len(calls) :
        calls[i].cb \in OwnHandlerCallbacks => calls[i].stopped /\ calls[i].prevented

\* C6: a column whose optional input is missing is left out, and no cell
\* formatter of a returned column throws.
C6_NoFormatterThrows ==
    pc = "planned" =>
        /\ ~response.ds_uid => "column-datasource" \notin {Ids[i] : i \in 1 .. Len(Ids)}
        /\ ~response.hasLocationInfo => "column-location" \notin {Ids[i] : i \in 1 .. Len(Ids)}
        /\ ~cell.throws

\* the registry's display name and logo for panel type t, as the claim reads them
HasDisplayName(t) == t \in DOMAIN panels /\ panels[t].name \notin {Undefined, ""}
SvgLogo(t) == panels[t].small # << >> /\ panels[t].small[Len(panels[t].small)] = ".svg"

\* the panel rows of the mapping, for a row whose kind is 'panel' and whose
\* panel_type is t
PanelRowAsClaimed(t) ==
    IF HasDisplayName(t)
      THEN /\ cell.txt = panels[t].name
           /\ cell.icon = IF SvgLogo(t) THEN panels[t].small ELSE GraphBarIcon
      ELSE /\ cell.txt = t
           /\ cell.icon = GraphBarIcon

\* the rows of the mapping for every kind but 'panel'
OtherRowsAsClaimed(k) ==
    CASE k \in {Undefined, "", "dashboard"} -> cell.icon = AppsIcon /\ cell.txt = "Dashboard"
      [] k = "folder" -> cell.icon = FolderIcon /\ cell.txt = "Folder"
      [] OTHER -> cell.icon = AppsIcon /\ cell.txt = k

ResolvesWithLogo(v) == v \in DOMAIN instanceSettings /\ instanceSettings[v].small # << >>

\* C8: the datasource cell of a row with list L is null when L is absent or
\* empty; otherwise it has one item per element of L, in order: a chip whose
\* click calls onDatasourceChange with the settings' uid when the element
\* resolves to settings with a small logo, else an invalid-style span with
\* the raw identifier and no click handler.  It never throws.
C8_DatasourceCell ==
    cell.col = "column-datasource" =>
        LET L == cell.row.ds_uid
        IN  /\ ~cell.throws
            /\ IF ~L.some \/ L.val = << >>
                 THEN cell.null /\ cell.items = << >>
                 ELSE /\ ~cell.null
                      /\ Len(cell.items) = Len(L.val)
                      /\ \A i \in 1 .. Len(L.val) :
                            IF ResolvesWithLogo(L.val[i])
                              THEN /\ cell.items[i].tag = "chip"
                                   /\ cell.items[i].text = instanceSettings[L.val[i]].name
                                   /\ cell.items[i].onClick # << >>
                              ELSE /\ cell.items[i].tag = "invalid"
                                   /\ cell.items[i].text = L.val[i]
                                   /\ cell.items[i].onClick = << >>
            /\ event.target = "datasource-chip" =>
                 /\ Len(calls) = 1
                 /\ calls[1].cb = "onDatasourceChange"
                 /\ \E i \in 1 .. Len(L.val) :
                       /\ ResolvesWithLogo(L.val[i])
                       /\ calls[1].arg = <<instanceSettings[L.val[i]].uid>>

C8_Witness ==
    /\ cell.col = "column-datasource"
    /\ cell.row.ds_uid = Some(<<"ds1", "ds2">>)
    /\ cell.items[1].tag = "chip" /\ cell.items[2].tag = "invalid"
    /\ event.target = "datasource-chip"
    /\ calls = <<[cb |-> "onDatasourceChange", arg |-> <<"uid-1">>,
                 stopped |-> TRUE, prevented |-> TRUE]>>

\* the segments joined again with '/'
RECURSIVE JoinKeys(_)
JoinKeys(items) ==
    IF Len(items) = 1
      THEN items[1].key
      ELSE items[1].key \o <<"/">> \o JoinKeys(Tail(items))

====
